---- MODULE Spec2Model ----
(***************************************************************************)
(* Consistent Overhead Byte Stuffing codec of cobs_cpp: cobs::encode,      *)
(* cobs::decode and the length helpers of lib/cobs.hpp.                    *)
(*                                                                         *)
(* Buffers are sequences of bytes; the C index i of a buffer is element    *)
(* i + 1 of its sequence.  Pointers into a buffer are modelled by their    *)
(* distance to the buffer's start.  A destination buffer is the sequence   *)
(* of its dst_len bytes; a store at an index >= dst_len lands outside the  *)
(* buffer and is recorded in the set oob.                                  *)
(***************************************************************************)
EXTENDS Integers, Sequences, FiniteSets

\* ------------------------------------------------------------------ bounds

\* Longest exhaustively enumerated buffer.
MaxLen == 4
\* Long buffers have runs of MaxRun - RunSlack .. MaxRun + RunSlack bytes.
RunSlack == 0
\* Destination capacities range up to this many bytes beyond the need.
CapSlack == 0
\* Width in bits of the modelled size_t.
SizeBits == 12

\* ------------------------------------------------------- program constants

\* The marker byte.
Marker == 0
\* The maximum offset, 0xff.
MaxOffset == 255
\* The divisor of max_encoded_length, 0xfe.
MaxRun == 254
\* uint8_t holds values modulo this.
ByteMod == 256

SizeMod == 2 ^ SizeBits

\* ------------------------------------------------------------------ helpers

At(buf, i) == buf[i + 1]

Run(x, n) == [i \in 1..n |-> x]

Prefix(buf, n) == [i \in 1..n |-> buf[i]]

SeqsUpTo(S, n) == UNION {[1..k -> S] : k \in 0..n}

\* ------------------------------------------------------------ length bounds

\* Mutant of max_encoded_length: one offset per 255 bytes instead of 254.
MaxEncodedLengthBy255(decoded_length) ==
    (decoded_length + decoded_length \div MaxOffset + 2) % SizeMod

\* constexpr size_t max_encoded_length(const size_t decoded_length)
max_encoded_length(decoded_length) ==
    (decoded_length + decoded_length \div MaxRun + 2) % SizeMod

\* constexpr size_t max_decoded_length(const size_t encoded_length)
max_decoded_length(encoded_length) == (encoded_length - 2) % SizeMod

\* ------------------------------------------------------------------- encode

\* *(p) = val for a pointer p = dst_start + idx.  A store past the end of the
\* destination is undefined: it lands in the memory behind the buffer, or it
\* faults when that memory is not mapped (st.unmapped).
Store(st, dst_len, idx, val) ==
    IF idx < dst_len
    THEN [st EXCEPT !.mem = [@ EXCEPT ![idx + 1] = val % ByteMod]]
    ELSE IF st.unmapped THEN [st EXCEPT !.status = "FAULT", !.oob = @ \cup {idx}]
    ELSE [st EXCEPT !.oob = @ \cup {idx}]

\* Lines 58-61: write back the offset and open the next chunk.
WriteBack(st, dst_len) ==
    LET s1 == Store(st, dst_len, st.dst_offset, st.dst_copy - st.dst_offset)
    IN  IF s1.status # "RUN" THEN s1
        ELSE [s1 EXCEPT !.dst_offset = st.dst_copy, !.dst_copy = st.dst_copy + 1]

\* Lines 50-52: append the data byte if possible.
AppendByte(st, dst_len, byte) ==
    IF st.dst_copy >= dst_len
    THEN [st EXCEPT !.status = "WRITE_OVERFLOW"]
    ELSE [Store(st, dst_len, st.dst_copy, byte) EXCEPT !.dst_copy = @ + 1]

\* Mutant of ChunkFull: the chunk is closed one byte early.
ChunkFullEarly(st) == st.dst_copy - st.dst_offset = MaxOffset - 1

\* Line 55: the chunk has hit the maximum offset.
ChunkFull(st) == st.dst_copy - st.dst_offset = MaxOffset

\* Lines 48-61: the body of the loop, for the byte read.
EncodeIter(st, dst_len, byte) ==
    IF byte # Marker
    THEN LET s1 == AppendByte(st, dst_len, byte)
         IN  IF s1.status # "RUN" THEN s1
             ELSE IF ~ChunkFull(s1) THEN s1
             ELSE WriteBack(s1, dst_len)
    ELSE WriteBack(st, dst_len)

\* Lines 47-62: while (src < src_end), for the source bytes lo .. hi - 1.  The
\* iterations are those of the loop, in its order; the range is halved only
\* to keep the evaluation shallow.
RECURSIVE EncodeLoop(_, _, _, _, _)
EncodeLoop(st, src_buf, dst_len, lo, hi) ==
    IF st.status # "RUN" \/ lo >= hi THEN st
    ELSE IF hi = lo + 1
    THEN EncodeIter([st EXCEPT !.src = @ + 1], dst_len, At(src_buf, st.src))
    ELSE LET mid == (lo + hi) \div 2
         IN  EncodeLoop(EncodeLoop(st, src_buf, dst_len, lo, mid),
                        src_buf, dst_len, mid, hi)

\* Mutant of EncodeTail: a last offset of 1 is not written back.
EncodeTailReduced(st, dst_len) ==
    LET s1 == IF st.dst_copy - st.dst_offset = 1 THEN st
              ELSE Store(st, dst_len, st.dst_offset, st.dst_copy - st.dst_offset)
    IN  IF s1.status # "RUN" THEN s1
        ELSE IF s1.dst_copy >= dst_len
        THEN [s1 EXCEPT !.status = "WRITE_OVERFLOW"]
        ELSE [Store(s1, dst_len, s1.dst_copy, Marker)
                EXCEPT !.dst_copy = @ + 1, !.status = "OK"]

\* Lines 64-72: the last offset and the marker.
EncodeTail(st, dst_len) ==
    LET s1 == Store(st, dst_len, st.dst_offset, st.dst_copy - st.dst_offset)
    IN  IF s1.status # "RUN" THEN s1
        ELSE IF s1.dst_copy >= dst_len
        THEN [s1 EXCEPT !.status = "WRITE_OVERFLOW"]
        ELSE [Store(s1, dst_len, s1.dst_copy, Marker)
                EXCEPT !.dst_copy = @ + 1, !.status = "OK"]

\* EncodeResult encode(src_start, src_len, dst_start, dst_len), with the
\* destination's bytes after the call and the stores that fell outside it.
encode(src_buf, dst_buf, dst_len, env) ==
    LET st0 == [src |-> 0, dst_copy |-> 1, dst_offset |-> 0, mem |-> dst_buf,
                oob |-> {}, unmapped |-> env.unmapped, status |-> "RUN"]
        s1  == EncodeLoop(st0, src_buf, dst_len, 0, Len(src_buf))
        s2  == IF s1.status = "RUN" THEN EncodeTail(s1, dst_len) ELSE s1
    IN  [status   |-> s2.status,
         produced |-> IF s2.status = "OK" THEN s2.dst_copy ELSE 0,
         dst      |-> s2.mem,
         oob      |-> s2.oob]

\* ------------------------------------------- encode of cobs_lib/cobs.cpp

\* size_t max_encoded_length(size_t decoded_length) of cobs_lib/cobs.cpp.
lib_max_encoded_length(decoded_length) ==
    (decoded_length + ((decoded_length + MaxRun) % SizeMod) \div MaxRun + 1) % SizeMod

\* debug_assert(idx < dst_len, ...); dst[idx] = val.  The assertion aborts in
\* a build with assertions (st.asserts); a build with NDEBUG stores unchecked.
LibStore(st, dst_len, idx, val) ==
    IF idx >= dst_len /\ st.asserts
    THEN [st EXCEPT !.status = "ABORT"]
    ELSE Store(st, dst_len, idx, val)

\* Lines 83-87: write back and reset the offset.
LibWriteBack(st, dst_len) ==
    LET s1 == LibStore(st, dst_len, st.dst_offset_idx, st.offset)
    IN  IF s1.status # "RUN" THEN s1
        ELSE [s1 EXCEPT !.offset = 1,
                        !.dst_offset_idx = st.dst_copy_idx,
                        !.dst_copy_idx = st.dst_copy_idx + 1]

\* Lines 75-87: the body of the loop, for the byte read.
LibEncodeIter(st, dst_len, byte) ==
    IF byte # Marker
    THEN LET s1 == LibStore(st, dst_len, st.dst_copy_idx, byte)
         IN  IF s1.status # "RUN" THEN s1
             ELSE LET s2 == [s1 EXCEPT !.dst_copy_idx = @ + 1, !.offset = @ + 1]
                  IN  IF s2.offset # MaxOffset THEN s2
                      ELSE LibWriteBack(s2, dst_len)
    ELSE LibWriteBack(st, dst_len)

\* Lines 74-88: while (src_idx < src_len), halved as in EncodeLoop.
RECURSIVE LibEncodeLoop(_, _, _, _, _)
LibEncodeLoop(st, src_buf, dst_len, lo, hi) ==
    IF st.status # "RUN" \/ lo >= hi THEN st
    ELSE IF hi = lo + 1
    THEN LibEncodeIter([st EXCEPT !.src_idx = @ + 1], dst_len, At(src_buf, st.src_idx))
    ELSE LET mid == (lo + hi) \div 2
         IN  LibEncodeLoop(LibEncodeLoop(st, src_buf, dst_len, lo, mid),
                           src_buf, dst_len, mid, hi)

\* Lines 90-103: the last offset, written back only if it is larger than 1,
\* and the frame marker.
LibEncodeTail(st, dst_len) ==
    LET s1 == IF st.offset # 1
              THEN LibStore(st, dst_len, st.dst_offset_idx, st.offset)
              ELSE st
    IN  IF s1.status # "RUN" THEN s1
        ELSE LET s2 == LibStore(s1, dst_len, s1.dst_copy_idx, Marker)
             IN  IF s2.status # "RUN" THEN s2
                 ELSE [s2 EXCEPT !.dst_copy_idx = @ + 1, !.status = "RETURNED"]

\* size_t encode(src, src_len, dst, dst_len) of cobs_lib/cobs.cpp: produced is
\* the value returned, with the destination's bytes after the call.
lib_encode(src_buf, dst_buf, dst_len, env, asserts) ==
    LET st0 == [src_idx |-> 0, dst_offset_idx |-> 0, dst_copy_idx |-> 1,
                offset |-> 1, mem |-> dst_buf, oob |-> {},
                unmapped |-> env.unmapped, asserts |-> asserts, status |-> "RUN"]
        s1  == LibEncodeLoop(st0, src_buf, dst_len, 0, Len(src_buf))
        s2  == IF s1.status = "RUN" THEN LibEncodeTail(s1, dst_len) ELSE s1
    IN  [status   |-> s2.status,
         produced |-> IF s2.status = "RETURNED" THEN s2.dst_copy_idx ELSE 0,
         dst      |-> s2.mem,
         oob      |-> s2.oob]

\* ------------------------------------------------------------------- decode

Max(a, b) == IF a >= b THEN a ELSE b

\* The value of *(src): a read past the end of the source yields st.junk.
Deref(st, src_buf) ==
    IF st.src < Len(src_buf) THEN At(src_buf, st.src) ELSE st.junk

\* The side of *(src++): the byte at src is read and src advances.
Advance(st) == [st EXCEPT !.rd_hi = Max(@, st.src + 1), !.src = @ + 1]

\* Mutant of CopyIter: a zero among the data is copied like any byte.
CopyIterAnyByte(st, src_buf, dst_len) ==
    LET byte == Deref(st, src_buf)
        s1   == Advance(st)
        s2   == Store(s1, dst_len, s1.dst, byte)
    IN  IF s2.status # "RUN" THEN s2 ELSE [s2 EXCEPT !.dst = @ + 1]

\* Lines 153-162: the body of the copy loop.
CopyIter(st, src_buf, dst_len) ==
    LET byte == Deref(st, src_buf)
        s1   == Advance(st)
    IN  IF byte = Marker
        THEN [s1 EXCEPT !.status = "UNEXPECTED_ZERO"]
        ELSE LET s2 == Store(s1, dst_len, s1.dst, byte)
             IN  IF s2.status # "RUN" THEN s2 ELSE [s2 EXCEPT !.dst = @ + 1]

\* Lines 152-163: while (src < src_copy_end), for src in lo .. hi - 1, halved
\* as in EncodeLoop.
RECURSIVE CopyLoop(_, _, _, _, _)
CopyLoop(st, src_buf, dst_len, lo, hi) ==
    IF st.status # "RUN" \/ lo >= hi THEN st
    ELSE IF hi = lo + 1 THEN CopyIter(st, src_buf, dst_len)
    ELSE LET mid == (lo + hi) \div 2
         IN  CopyLoop(CopyLoop(st, src_buf, dst_len, lo, mid),
                      src_buf, dst_len, mid, hi)

\* Mutant of DecodeChunk: the destination is not checked before the copy.
DecodeChunkUnchecked(st, src_buf, dst_len) ==
    LET src_copy_end == st.src + st.offset - 1
    IN  IF src_copy_end > Len(src_buf)
        THEN [st EXCEPT !.status = "READ_OVERFLOW"]
        ELSE CopyLoop(st, src_buf, dst_len, st.src, src_copy_end)

\* Lines 140-163: the bounds of the chunk are checked, then it is copied.
\* src_copy_end and dst_copy_end may point up to 254 bytes past the end of
\* their buffers; they are compared as the addresses they are.
DecodeChunk(st, src_buf, dst_len) ==
    LET src_copy_end == st.src + st.offset - 1
        dst_copy_end == st.dst + st.offset - 1
    IN  IF src_copy_end > Len(src_buf)
        THEN [st EXCEPT !.status = "READ_OVERFLOW"]
        ELSE IF dst_copy_end > dst_len
        THEN [st EXCEPT !.status = "WRITE_OVERFLOW"]
        ELSE CopyLoop(st, src_buf, dst_len, st.src, src_copy_end)

\* Mutant of EmitZero: a zero is output after a maximal chunk too.
EmitZeroAlways(st, dst_len) ==
    IF st.dst >= dst_len
    THEN [st EXCEPT !.status = "WRITE_OVERFLOW"]
    ELSE LET s1 == Store(st, dst_len, st.dst, Marker)
         IN  IF s1.status # "RUN" THEN s1 ELSE [s1 EXCEPT !.dst = @ + 1]

\* Lines 176-181: output the zero the last offset stood for.
EmitZero(st, dst_len) ==
    IF st.offset # MaxOffset
    THEN IF st.dst >= dst_len
         THEN [st EXCEPT !.status = "WRITE_OVERFLOW"]
         ELSE LET s1 == Store(st, dst_len, st.dst, Marker)
              IN  IF s1.status # "RUN" THEN s1 ELSE [s1 EXCEPT !.dst = @ + 1]
    ELSE st

\* Mutant of NextOffset: the zero is output before the end is checked.
NextOffsetEager(st, src_buf, dst_len) ==
    IF st.src >= Len(src_buf)
    THEN [st EXCEPT !.status = "READ_OVERFLOW"]
    ELSE LET next_offset == Deref(st, src_buf)
             s1          == Advance(st)
             s2          == EmitZero(s1, dst_len)
         IN  IF s2.status # "RUN" THEN s2
             ELSE IF next_offset = Marker THEN [s2 EXCEPT !.status = "OK"]
             ELSE [s2 EXCEPT !.offset = next_offset]

\* Lines 165-184: retrieve the next offset.
NextOffset(st, src_buf, dst_len) ==
    IF st.src >= Len(src_buf)
    THEN [st EXCEPT !.status = "READ_OVERFLOW"]
    ELSE LET next_offset == Deref(st, src_buf)
             s1          == Advance(st)
         IN  IF next_offset = Marker THEN [s1 EXCEPT !.status = "OK"]
             ELSE LET s2 == EmitZero(s1, dst_len)
                  IN  IF s2.status # "RUN" THEN s2
                      ELSE [s2 EXCEPT !.offset = next_offset]

\* Lines 138-184: the body of the outer loop.
DecodeIter(st, src_buf, dst_len) ==
    LET s1 == DecodeChunk(st, src_buf, dst_len)
    IN  IF s1.status # "RUN" THEN s1 ELSE NextOffset(s1, src_buf, dst_len)

\* Lines 137-185: while (true).  Every iteration that does not return reads
\* a byte below src_end, so the loop returns within n = src_len + 1
\* iterations; they are halved as in EncodeLoop.
RECURSIVE DecodeLoop(_, _, _, _)
DecodeLoop(st, src_buf, dst_len, n) ==
    IF st.status # "RUN" \/ n <= 0 THEN st
    ELSE IF n = 1 THEN DecodeIter(st, src_buf, dst_len)
    ELSE DecodeLoop(DecodeLoop(st, src_buf, dst_len, n \div 2),
                    src_buf, dst_len, n - n \div 2)

\* Mutant of FirstOffset: a first offset of 0x00 is taken as an offset.
FirstOffsetAny(st, src_buf) ==
    IF st.src >= Len(src_buf)
    THEN [st EXCEPT !.status = "READ_OVERFLOW"]
    ELSE [Advance(st) EXCEPT !.offset = Deref(st, src_buf)]

\* Lines 126-135: read the first offset.
FirstOffset(st, src_buf) ==
    IF st.src >= Len(src_buf)
    THEN [st EXCEPT !.status = "READ_OVERFLOW"]
    ELSE LET offset == Deref(st, src_buf)
             s1     == Advance(st)
         IN  IF offset = Marker
             THEN [s1 EXCEPT !.status = "UNEXPECTED_ZERO"]
             ELSE [s1 EXCEPT !.offset = offset]

\* Lines 110-124: the result each status is returned with.
DecodeResult(st) ==
    [status   |-> st.status,
     consumed |-> IF st.status \in {"OK", "UNEXPECTED_ZERO"} THEN st.src ELSE 0,
     produced |-> IF st.status = "OK" THEN st.dst ELSE 0,
     dst      |-> st.mem,
     oob      |-> st.oob,
     rd_hi    |-> st.rd_hi]

\* DecodeResult decode(src_start, src_len, dst_start, dst_len), with the
\* destination's bytes after the call, the stores that fell outside it and
\* the number of leading source bytes the call looked at.
decode(src_buf, dst_buf, dst_len, env) ==
    LET st0 == [src |-> 0, dst |-> 0, offset |-> 0, mem |-> dst_buf, oob |-> {},
                rd_hi |-> 0, junk |-> env.junk, unmapped |-> env.unmapped,
                status |-> "RUN"]
        s1  == FirstOffset(st0, src_buf)
    IN  DecodeResult(IF s1.status # "RUN" THEN s1
                     ELSE DecodeLoop(s1, src_buf, dst_len, Len(src_buf) + 1))

\* ------------------------------------------------------------- the callers

VARIABLES
    pc,        \* "idle", "encoded", "decoded" or "sized": the call made last
    decoded,   \* the source buffer given to encode
    enc_len,   \* the dst_len given to encode
    enc,       \* what encode returned and did to memory
    encoded,   \* the source buffer given to decode
    dec_len,   \* the dst_len given to decode
    dec,       \* what decode returned and did to memory
    len_arg,   \* the argument given to max_encoded_length
    len_res    \* what max_encoded_length returned

vars == <<pc, decoded, enc_len, enc, encoded, dec_len, dec, len_arg, len_res>>

\* Bytes of the sources given to encode, of the sources given to decode and
\* of the long runs.
DataBytes == {0, 1, 2}
CodeBytes == {0, 1, 2, 3, 255}
RunBytes == {1, 255}

\* What a call finds around its buffers: the byte the destination is filled
\* with, the byte behind the end of the source, and whether the memory behind
\* the end of the destination is unmapped.
Envs ==
    {[fill |-> 0,   junk |-> 0,   unmapped |-> FALSE],
     [fill |-> 170, junk |-> 170, unmapped |-> FALSE],
     [fill |-> 170, junk |-> 0,   unmapped |-> TRUE]}

RunLengths == (MaxRun - RunSlack .. MaxRun + RunSlack) \cup {2 * MaxRun}

Ends == SeqsUpTo({0, 2}, 1)

\* The sources given to encode: every short one, and runs around one and two
\* maximal chunks, alone, after a byte and before a byte.
Sources ==
    SeqsUpTo(DataBytes, MaxLen)
        \cup {p \o Run(x, n) \o s :
                p \in Ends, s \in Ends, x \in RunBytes, n \in RunLengths}

\* The sources given to decode: every short one, and maximal and nearly
\* maximal chunks with every short tail.
Streams ==
    SeqsUpTo(CodeBytes, MaxLen)
        \cup {<<h>> \o Run(x, n) \o t :
                h \in {MaxOffset - 1, MaxOffset}, x \in RunBytes,
                n \in MaxRun - 1 - RunSlack .. MaxRun,
                t \in SeqsUpTo({0, 1, 2}, 2)}

\* The capacities tried for a destination that needs `need` bytes: around the
\* need, and for a short buffer every smaller one too.
NearCaps(need) == {c \in need - 1 - CapSlack .. need + CapSlack : c >= 0}

Caps(need) ==
    IF need <= 2 * MaxLen THEN 0 .. need + CapSlack
    ELSE {0, need \div 2} \cup NearCaps(need)

\* The capacities tried for decoding encoded_length bytes whose decoding has
\* `need` bytes: those of Caps and NearCaps, and the documented safe length.
SafeCap(encoded_length) ==
    IF encoded_length >= 2 THEN {max_decoded_length(encoded_length)} ELSE {}

NoEnc == [status |-> "NONE", produced |-> 0, dst |-> <<>>, oob |-> {}]
NoDec == [status |-> "NONE", consumed |-> 0, produced |-> 0, dst |-> <<>>,
          oob |-> {}, rd_hi |-> 0]

Init ==
    /\ pc = "idle"
    /\ decoded = <<>> /\ enc_len = 0 /\ enc = NoEnc
    /\ encoded = <<>> /\ dec_len = 0 /\ dec = NoDec
    /\ len_arg = 0 /\ len_res = 0

\* A caller encodes one of the sources srcs into a destination of dst_len
\* bytes.
EncodeFrom(srcs) ==
    /\ pc = "idle"
    /\ \E src_buf \in srcs, env \in Envs :
         \E dst_len \in Caps(max_encoded_length(Len(src_buf))) :
            /\ decoded' = src_buf
            /\ enc_len' = dst_len
            /\ enc' = encode(src_buf, Run(env.fill, dst_len), dst_len, env)
    /\ pc' = "encoded"
    /\ UNCHANGED <<encoded, dec_len, dec, len_arg, len_res>>

\* A caller decodes one of the sources srcs into a destination of dst_len
\* bytes.
DecodeFrom(srcs) ==
    /\ pc = "idle"
    /\ \E src_buf \in srcs, env \in Envs :
         \E dst_len \in Caps(Len(src_buf)) \cup SafeCap(Len(src_buf)) :
            /\ encoded' = src_buf
            /\ dec_len' = dst_len
            /\ dec' = decode(src_buf, Run(env.fill, dst_len), dst_len, env)
    /\ pc' = "decoded"
    /\ UNCHANGED <<decoded, enc_len, enc, len_arg, len_res>>

EncodeCall == EncodeFrom(Sources)

DecodeCall == DecodeFrom(Streams)

\* A caller decodes what encode produced.
DecodeEncoded ==
    /\ pc = "encoded"
    /\ enc.status = "OK"
    /\ \E env \in Envs :
         \E dst_len \in NearCaps(Len(decoded)) \cup SafeCap(enc.produced) :
            /\ encoded' = Prefix(enc.dst, enc.produced)
            /\ dec_len' = dst_len
            /\ dec' = decode(Prefix(enc.dst, enc.produced),
                             Run(env.fill, dst_len), dst_len, env)
    /\ pc' = "decoded"
    /\ UNCHANGED <<decoded, enc_len, enc, len_arg, len_res>>

\* A caller sizes a destination for decoded_length bytes.
SizeCall ==
    /\ pc = "idle"
    /\ \E decoded_length \in 0 .. SizeMod - 1 :
            /\ len_arg' = decoded_length
            /\ len_res' = max_encoded_length(decoded_length)
    /\ pc' = "sized"
    /\ UNCHANGED <<decoded, enc_len, enc, encoded, dec_len, dec>>

Next == EncodeCall \/ DecodeCall \/ DecodeEncoded \/ SizeCall

Spec == Init /\ [][Next]_vars

\* The callers of the maximal chunk: the sources given to encode are the 254
\* copies of each non-zero byte, those given to decode their reduced forms.
MaximalRuns == {Run(x, MaxRun) : x \in 1..MaxOffset}

ReducedForms == {<<MaxOffset>> \o Run(x, MaxRun) \o <<Marker>> : x \in 1..MaxOffset}

EncodeMaximal == EncodeFrom(MaximalRuns)

DecodeReduced == DecodeFrom(ReducedForms)

NextMaximal == EncodeMaximal \/ DecodeReduced \/ DecodeEncoded

SpecMaximal == Init /\ [][NextMaximal]_vars

\* The callers of the two encoders: the sources of EncodeCall are encoded by
\* either and the output is decoded.
LibEncodeCall ==
    /\ pc = "idle"
    /\ \E src_buf \in Sources, env \in Envs, asserts \in BOOLEAN :
         \E dst_len \in NearCaps(lib_max_encoded_length(Len(src_buf))) :
            /\ decoded' = src_buf
            /\ enc_len' = dst_len
            /\ enc' = lib_encode(src_buf, Run(env.fill, dst_len), dst_len, env, asserts)
    /\ pc' = "lib_encoded"
    /\ UNCHANGED <<encoded, dec_len, dec, len_arg, len_res>>

DecodeLibEncoded ==
    /\ pc = "lib_encoded"
    /\ enc.status = "RETURNED"
    /\ enc.produced <= enc_len
    /\ \E env \in Envs :
         \E dst_len \in NearCaps(Len(decoded)) \cup SafeCap(enc.produced) :
            /\ encoded' = Prefix(enc.dst, enc.produced)
            /\ dec_len' = dst_len
            /\ dec' = decode(Prefix(enc.dst, enc.produced),
                             Run(env.fill, dst_len), dst_len, env)
    /\ pc' = "lib_decoded"
    /\ UNCHANGED <<decoded, enc_len, enc, len_arg, len_res>>

NextVariants == EncodeCall \/ DecodeEncoded \/ LibEncodeCall \/ DecodeLibEncoded

SpecVariants == Init /\ [][NextVariants]_vars

\* ------------------------------------------------------------ the claims

Encoded == pc \in {"encoded", "decoded"} /\ enc.status # "NONE"
Decoded == pc = "decoded"
RoundTrip == pc = "decoded" /\ enc.status = "OK"

\* C1. Round trip: encode into a destination of at least
\* max_encoded_length(len(d)) bytes returns OK, and decoding its p bytes into
\* a destination of at least len(d) bytes returns OK, consumes p bytes and
\* produces the bytes of d.
C1_RoundTrip ==
    /\ Encoded /\ enc_len >= max_encoded_length(Len(decoded))
          => enc.status = "OK"
    /\ RoundTrip /\ dec_len >= Len(decoded)
          => /\ dec.status = "OK"
             /\ dec.consumed = enc.produced
             /\ dec.consumed = Len(encoded)
             /\ dec.produced = Len(decoded)
             /\ Prefix(dec.dst, dec.produced) = decoded

C1_Witness ==
    /\ RoundTrip /\ dec.status = "OK"
    /\ Len(decoded) > MaxRun
    /\ \E i \in 1..Len(decoded) : decoded[i] = Marker
    /\ Prefix(dec.dst, dec.produced) = decoded

\* C2. Encode bound: into a destination of exactly
\* max_encoded_length(len(d)) bytes encode never returns WRITE_OVERFLOW, and
\* no encoding is longer than that.
C2_EncodeBound ==
    /\ Encoded /\ enc_len = max_encoded_length(Len(decoded))
          => enc.status # "WRITE_OVERFLOW"
    /\ Encoded /\ enc.status = "OK"
          => enc.produced <= max_encoded_length(Len(decoded))

C2_Witness ==
    /\ Encoded /\ enc.status = "OK"
    /\ Len(decoded) >= MaxRun
    /\ enc_len = max_encoded_length(Len(decoded))
    /\ enc.produced = enc_len

\* The chunks of buf from index i on lead to index end.
RECURSIVE ChunksLeadTo(_, _, _)
ChunksLeadTo(buf, i, end) ==
    \/ i = end
    \/ /\ i < end
       /\ At(buf, i) \in 1..MaxOffset
       /\ ChunksLeadTo(buf, i + At(buf, i), end)

\* C3. The p bytes encode produces end in the marker, hold no other marker
\* and are chunks of an offset 1..255 and offset - 1 data bytes, the last of
\* which ends at the terminating marker.
C3_MarkerFree ==
    Encoded /\ enc.status = "OK"
       => /\ enc.produced >= 2
          /\ At(enc.dst, enc.produced - 1) = Marker
          /\ \A i \in 0 .. enc.produced - 2 : At(enc.dst, i) # Marker
          /\ ChunksLeadTo(enc.dst, 0, enc.produced - 1)

C3_Witness ==
    /\ Encoded /\ enc.status = "OK"
    /\ enc.produced > MaxOffset + 2
    /\ \E i \in 1..Len(decoded) : decoded[i] = Marker
    /\ At(enc.dst, 0) = MaxOffset

\* C4. Every byte encode stores goes to an index below the capacity of the
\* destination.
C4_NoStoreOutside == Encoded => enc.oob = {}

\* The index behind the last marker of buf before index k, 0 if there is none.
RunStart(buf, zeros, k) ==
    IF \E z \in zeros : z < k
    THEN 1 + CHOOSE z \in zeros : z < k /\ \A y \in zeros : y < k => y <= z
    ELSE 0

\* The length of the encoding of d: its bytes, the first offset, the marker,
\* and one more offset for each MaxRun-th byte of a run of non-zero bytes.
EncodedLength(d) ==
    LET zeros == {i \in 0 .. Len(d) - 1 : At(d, i) = Marker}
    IN  Len(d) + 2
          + Cardinality({k \in 0 .. Len(d) - 1 :
                            /\ At(d, k) # Marker
                            /\ (k + 1 - RunStart(d, zeros, k)) % MaxRun = 0})

\* C5. encode returns WRITE_OVERFLOW and 0 exactly when the capacity is below
\* the length of the encoding, and else OK and that length, which is >= 2.
C5_StatusExact ==
    Encoded =>
       IF enc_len < EncodedLength(decoded)
       THEN enc.status = "WRITE_OVERFLOW" /\ enc.produced = 0
       ELSE /\ enc.status = "OK"
            /\ enc.produced = EncodedLength(decoded)
            /\ enc.produced >= 2

\* d is MaxRun copies of one non-zero byte.
IsMaximalRun(d) == Len(d) = MaxRun /\ d[1] # Marker /\ d = Run(d[1], MaxRun)

\* buf is 0xFF, MaxRun copies of one non-zero byte, 0x00.
IsReducedForm(buf) ==
    /\ Len(buf) = MaxOffset + 1
    /\ At(buf, 1) # Marker
    /\ buf = <<MaxOffset>> \o Run(At(buf, 1), MaxRun) \o <<Marker>>

\* C6, as amended. encode of 254 copies of a non-zero byte x produces the 257
\* bytes 0xFF, 254 times x, 0x01, 0x00; decoding them, or the 256 bytes 0xFF,
\* 254 times x, 0x00, returns OK and the 254 bytes.
C6_MaximalChunk ==
    /\ Encoded /\ IsMaximalRun(decoded) /\ enc_len >= MaxOffset + 2
          => /\ enc.status = "OK"
             /\ enc.produced = MaxOffset + 2
             /\ Prefix(enc.dst, enc.produced) = <<MaxOffset>> \o decoded \o <<1, Marker>>
    /\ RoundTrip /\ IsMaximalRun(decoded) /\ dec_len >= MaxRun
          => /\ dec.status = "OK"
             /\ dec.consumed = MaxOffset + 2
             /\ Prefix(dec.dst, dec.produced) = decoded
    /\ Decoded /\ IsReducedForm(encoded) /\ dec_len >= MaxRun
          => /\ dec.status = "OK"
             /\ dec.consumed = MaxOffset + 1
             /\ Prefix(dec.dst, dec.produced) = Run(At(encoded, 1), MaxRun)

C6_Witness ==
    /\ RoundTrip /\ IsMaximalRun(decoded)
    /\ dec.status = "OK" /\ dec.produced = MaxRun
    /\ encoded = <<MaxOffset>> \o decoded \o <<1, Marker>>

\* C6, as claimed: encode of 254 copies of a non-zero byte x produces the 256
\* bytes 0xFF, 254 times x, 0x00.
C6_ReducedForm ==
    Encoded /\ IsMaximalRun(decoded) /\ enc.status = "OK"
       => /\ enc.produced = MaxOffset + 1
          /\ Prefix(enc.dst, enc.produced) = <<MaxOffset>> \o decoded \o <<Marker>>

\* buf holds a marker, and the index of the first one.
HasMarker(buf) == \E i \in 0 .. Len(buf) - 1 : At(buf, i) = Marker

FirstMarker(buf) ==
    CHOOSE z \in 0 .. Len(buf) - 1 :
        At(buf, z) = Marker /\ \A i \in 0 .. z - 1 : At(buf, i) # Marker

\* C7. When decode returns OK or UNEXPECTED_ZERO, consumed >= 1 and the byte
\* at consumed - 1 is the first 0x00 of the source, behind which nothing was
\* read; UNEXPECTED_ZERO comes with produced = 0; a source that starts with
\* 0x00 gives UNEXPECTED_ZERO and consumed = 1.
C7_Resynchronise ==
    /\ Decoded /\ dec.status \in {"OK", "UNEXPECTED_ZERO"}
          => /\ dec.consumed >= 1
             /\ HasMarker(encoded)
             /\ dec.consumed - 1 = FirstMarker(encoded)
             /\ dec.rd_hi <= dec.consumed
    /\ Decoded /\ dec.status = "UNEXPECTED_ZERO" => dec.produced = 0
    /\ Decoded /\ Len(encoded) >= 1 /\ At(encoded, 0) = Marker
          => dec.status = "UNEXPECTED_ZERO" /\ dec.consumed = 1

C7_Witness ==
    /\ Decoded /\ dec.status = "UNEXPECTED_ZERO"
    /\ dec.consumed > 1 /\ dec.consumed < Len(encoded)
    /\ dec.consumed - 1 = FirstMarker(encoded)

\* The index of the offset byte of the chunk that holds index z, walking the
\* offsets from index i; z itself when the walk arrives at z.
RECURSIVE ChunkOf(_, _, _)
ChunkOf(buf, i, z) ==
    IF i >= z \/ i + At(buf, i) > z THEN i
    ELSE ChunkOf(buf, i + At(buf, i), z)

\* The first marker of buf is a data byte of a chunk.
MarkerInData(buf) ==
    HasMarker(buf) /\ ChunkOf(buf, 0, FirstMarker(buf)) < FirstMarker(buf)

\* ... of a chunk whose data bytes all lie in buf.
MarkerInWholeChunk(buf) ==
    /\ MarkerInData(buf)
    /\ LET i == ChunkOf(buf, 0, FirstMarker(buf))
       IN  i + At(buf, i) <= Len(buf)

CorruptedResult ==
    /\ dec.status = "UNEXPECTED_ZERO"
    /\ dec.consumed = FirstMarker(encoded) + 1
    /\ dec.produced = 0

\* C8, as amended. When the first 0x00 of the source is a data byte of a
\* chunk whose offset - 1 data bytes all lie in the source, decode into a
\* destination of at least len(src) bytes returns UNEXPECTED_ZERO, consumed
\* up to and including that byte, produced 0.
C8_CorruptedStream ==
    Decoded /\ MarkerInWholeChunk(encoded) /\ dec_len >= Len(encoded)
       => CorruptedResult

C8_Witness ==
    /\ Decoded /\ MarkerInWholeChunk(encoded) /\ dec_len >= Len(encoded)
    /\ encoded = <<2, 0, 0>>
    /\ dec.status = "UNEXPECTED_ZERO" /\ dec.consumed = 2 /\ dec.produced = 0

\* C8, as claimed: the same of every source whose first 0x00 is a data byte.
C8_AnyChunk ==
    Decoded /\ MarkerInData(encoded) /\ dec_len >= Len(encoded)
       => CorruptedResult

\* buf is chunks of non-zero bytes ended by its only marker.
WellFormed(buf) ==
    /\ Len(buf) >= 2
    /\ HasMarker(buf)
    /\ FirstMarker(buf) = Len(buf) - 1
    /\ ChunkOf(buf, 0, Len(buf) - 1) = Len(buf) - 1

\* C9. Decoding a well-formed buffer of L bytes into a destination of
\* max_decoded_length(L) bytes never returns WRITE_OVERFLOW.
C9_DecodeBound ==
    Decoded /\ WellFormed(encoded) /\ dec_len = max_decoded_length(Len(encoded))
       => dec.status # "WRITE_OVERFLOW"

C9_Witness ==
    /\ Decoded /\ WellFormed(encoded)
    /\ dec_len = max_decoded_length(Len(encoded))
    /\ Len(encoded) = MaxOffset + 1 /\ At(encoded, 0) = MaxOffset
    /\ dec.status = "OK" /\ dec.produced = dec_len

\* C10. max_encoded_length returns decoded_length + floor(decoded_length /
\* 254) + 2 for every decoded_length of the size type.
C10_NoWrap ==
    pc = "sized" => len_res = len_arg + len_arg \div MaxRun + 2

\* C11. decode reads the source only at indices below its length and stores
\* only at indices below the capacity of the destination, whatever the source
\* and the capacity, and whatever status it returns.
C11_DecodeInBounds ==
    Decoded => /\ dec.rd_hi <= Len(encoded)
               /\ dec.oob = {}
               /\ dec.status # "FAULT"

C11_Witness ==
    /\ Decoded /\ dec.status = "WRITE_OVERFLOW"
    /\ dec_len >= 1 /\ dec.rd_hi >= 3
    /\ At(dec.dst, 0) = At(encoded, 1)
    /\ dec.oob = {}

LibRoundTrip ==
    /\ pc = "lib_decoded"
    /\ enc_len >= lib_max_encoded_length(Len(decoded))

\* C12. What either encoder leaves in a destination that is large enough
\* decodes to OK and the bytes of the source.
C12_BothDecodable ==
    /\ RoundTrip /\ dec_len >= Len(decoded)
          => dec.status = "OK" /\ Prefix(dec.dst, dec.produced) = decoded
    /\ LibRoundTrip /\ dec_len >= Len(decoded)
          => dec.status = "OK" /\ Prefix(dec.dst, dec.produced) = decoded

====
